---- MODULE Spec2Model ----
(***************************************************************************)
(* A model of the correlheatmap package: the returns engine                *)
(* (analysis.compute_returns), the correlation engine                      *)
(* (analysis._align_returns, analysis.compute_correlation_matrix), the     *)
(* colour mapper (visualization.correlation_to_hex) and the desktop        *)
(* handler (app.HeatmapApp.build_heatmap).                                 *)
(*                                                                         *)
(* Numbers.  The code computes in binary floating point; the model         *)
(* computes in exact arithmetic.  A return value is a rational <<n, d>>    *)
(* in lowest terms (d > 0), counted in a unit that depends on the return   *)
(* type: 1 for "pct" and ln 2 for "log" (the model's prices are powers of  *)
(* two, so every log return is an integer multiple of ln 2).  A            *)
(* correlation is a real s * sqrt(q) with s in {-1, 0, 1} and q a          *)
(* rational: the record [sgn |-> s, sq |-> q].                             *)
(***************************************************************************)
EXTENDS Integers, Sequences, FiniteSets, TLC

VARIABLES
    pc,             \* compute_returns / correlation_to_hex: position of the single call
    series,         \* compute_returns: the price series passed in
    outcome,        \* compute_returns / correlation_to_hex: what the call returned or raised
    value,          \* correlation_to_hex: the value passed in
    return_type,    \* compute_returns / compute_correlation_matrix: return_type
    price_history,  \* compute_correlation_matrix: the mapping passed in, as its items()
    frames,         \* compute_correlation_matrix: the locals of each call in progress
    tickers_var,    \* HeatmapApp: the tickers entry, as its whitespace/comma separated words
    start_var,      \* HeatmapApp: the start date entry
    end_var,        \* HeatmapApp: the end date entry
    return_var,     \* HeatmapApp: the return type combobox
    status_var,     \* HeatmapApp: the status line
    canvas,         \* HeatmapApp: the heatmap canvas
    table,          \* HeatmapApp: the table
    dialogs,        \* HeatmapApp: the messagebox.showerror calls of the latest build_heatmap
    result          \* HeatmapApp: the CorrelationResult of the latest build that computed one

callVars == <<pc, series, outcome, value>>
corrVars == <<price_history, frames>>
formVars == <<tickers_var, start_var, end_var, return_var>>
shownVars == <<status_var, canvas, table>>
appVars == <<formVars, shownVars, dialogs, result>>
vars == <<callVars, return_type, corrVars, appVars>>

----------------------------------------------------------------------------
(* Exact arithmetic *)

Abs(n) == IF n < 0 THEN -n ELSE n

Sign(n) == IF n < 0 THEN -1 ELSE IF n = 0 THEN 0 ELSE 1

RECURSIVE GCD(_, _)
GCD(a, b) == IF b = 0 THEN a ELSE GCD(b, a % b)

\* The rational n/d in lowest terms, d > 0.
Rat(n, d) ==
    LET g == GCD(Abs(n), Abs(d))
        s == IF d < 0 THEN -1 ELSE 1
    IN  <<(s * n) \div g, (s * d) \div g>>

RInt(n) == <<n, 1>>
RAdd(a, b) == Rat(a[1] * b[2] + b[1] * a[2], a[2] * b[2])
RSub(a, b) == Rat(a[1] * b[2] - b[1] * a[2], a[2] * b[2])
RMul(a, b) == Rat(a[1] * b[1], a[2] * b[2])
RDiv(a, b) == Rat(a[1] * b[2], a[2] * b[1])
RLt(a, b) == a[1] * b[2] < b[1] * a[2]
RLe(a, b) == a[1] * b[2] <= b[1] * a[2]

\* s * sqrt(q), in canonical form: q is 0 exactly when s is.
Surd(s, q) == IF s = 0 \/ q[1] = 0 THEN [sgn |-> 0, sq |-> <<0, 1>>]
              ELSE [sgn |-> s, sq |-> q]
Zero == Surd(0, <<0, 1>>)
One == Surd(1, <<1, 1>>)
MinusOne == Surd(-1, <<1, 1>>)

\* F(x) for a local variable assigned once: x is computed once, then used.
Assigned(x, F(_)) == CHOOSE y \in {F(v) : v \in {x}} : TRUE

\* The sequences over S of length up to n.
RECURSIVE SeqsUpTo(_, _)
SeqsUpTo(S, n) ==
    IF n = 0 THEN {<<>>}
    ELSE LET shorter == SeqsUpTo(S, n - 1)
         IN  shorter \cup {Append(s, x) : s \in {t \in shorter : Len(t) = n - 1}, x \in S}

\* A series of daily closes: consecutive dates from `start`, in date order.
DailySeries(start, prices) == [i \in 1..Len(prices) |-> <<start + i - 1, prices[i]>>]

Front(s) == SubSeq(s, 1, Len(s) - 1)
Last(s) == s[Len(s)]

----------------------------------------------------------------------------
(* analysis.compute_returns *)

\* The messages of the ValueErrors the package raises.
MSG_TOO_FEW_PRICES == "At least two price observations are required to compute returns."
MSG_RETURN_TYPE == "Return type must be 'log' or 'pct'."
MSG_NO_RETURNS == "Unable to compute returns due to non-positive prices or insufficient data."
MSG_TWO_TICKERS == "At least two tickers are required to compute correlations."
MSG_NO_OVERLAP == "Not enough overlapping return observations across tickers."
MSG_NO_OBSERVATIONS == "Not enough return observations to compute correlation."

\* The error kinds of the package's failures, by raise site.
InvalidParameter == {MSG_RETURN_TYPE, MSG_TWO_TICKERS}
InsufficientData == {MSG_TOO_FEW_PRICES, MSG_NO_RETURNS, MSG_NO_OVERLAP, MSG_NO_OBSERVATIONS}

\* A call's outcome: a returned value, or a raised ValueError.
Returned(v) == [ok |-> TRUE, error |-> "", value |-> v]
Raised(msg) == [ok |-> FALSE, error |-> msg, value |-> <<>>]
NoOutcome == [ok |-> FALSE, error |-> "", value |-> <<>>]

\* sorted(series, key=lambda item: item[0]): a stable sort by date, as an
\* insertion sort that places an item after every item dated no later.
InsertByDate(sorted, item) ==
    LET before == {i \in 1..Len(sorted) : sorted[i][1] <= item[1]}
        k == IF before = {} THEN 0 ELSE CHOOSE i \in before : \A j \in before : j <= i
    IN  SubSeq(sorted, 1, k) \o <<item>> \o SubSeq(sorted, k + 1, Len(sorted))

RECURSIVE SortedByDate(_)
SortedByDate(s) ==
    IF s = <<>> THEN <<>> ELSE InsertByDate(SortedByDate(Front(s)), Last(s))

\* math.log(current / previous) in units of ln 2, for a ratio that is a power of two.
RECURSIVE Log2(_)
Log2(q) ==
    IF q = <<1, 1>> THEN 0
    ELSE IF RLt(<<1, 1>>, q) THEN 1 + Log2(RDiv(q, <<2, 1>>))
    ELSE Log2(RMul(q, <<2, 1>>)) - 1

LogReturn(previous_price, current_price) ==
    RInt(Log2(Rat(current_price, previous_price)))

PctReturn(previous_price, current_price) ==
    Rat(current_price - previous_price, previous_price)

ReturnValue(rt, previous_price, current_price) ==
    IF rt = "log" THEN LogReturn(previous_price, current_price)
    ELSE PctReturn(previous_price, current_price)

\* Line 38: the baseline after a skipped pair.
BaselineAfterSkipStale(previous, current) == previous

BaselineAfterSkip(previous, current) == current

\* The loop of lines 36-45 from position i on, with the baseline `previous`.
RECURSIVE WalkReturns(_, _, _, _, _)
WalkReturns(ordered, i, previous, rt, returns) ==
    IF i > Len(ordered) THEN returns
    ELSE LET current == ordered[i] IN
        IF previous[2] <= 0 \/ current[2] <= 0
        THEN WalkReturns(ordered, i + 1, BaselineAfterSkip(previous, current), rt, returns)
        ELSE WalkReturns(ordered, i + 1, current, rt,
                         Append(returns, <<current[1], ReturnValue(rt, previous[2], current[2])>>))

\* compute_returns with the return type validated before the length.
compute_returns_TypeFirst(s, rt) ==
    IF rt \notin {"log", "pct"} THEN Raised(MSG_RETURN_TYPE)
    ELSE IF Len(s) < 2 THEN Raised(MSG_TOO_FEW_PRICES)
    ELSE LET ordered == SortedByDate(s)
             returns == WalkReturns(ordered, 2, ordered[1], rt, <<>>)
         IN  IF returns = <<>> THEN Raised(MSG_NO_RETURNS) ELSE Returned(returns)

\* compute_returns without the final check of lines 47-48.
compute_returns_NoEmptyCheck(s, rt) ==
    IF Len(s) < 2 THEN Raised(MSG_TOO_FEW_PRICES)
    ELSE IF rt \notin {"log", "pct"} THEN Raised(MSG_RETURN_TYPE)
    ELSE LET ordered == SortedByDate(s)
         IN  Returned(WalkReturns(ordered, 2, ordered[1], rt, <<>>))

compute_returns(s, rt) ==
    IF Len(s) < 2 THEN Raised(MSG_TOO_FEW_PRICES)
    ELSE IF rt \notin {"log", "pct"} THEN Raised(MSG_RETURN_TYPE)
    ELSE LET ordered == SortedByDate(s)
             returns == WalkReturns(ordered, 2, ordered[1], rt, <<>>)
         IN  IF returns = <<>> THEN Raised(MSG_NO_RETURNS) ELSE Returned(returns)

----------------------------------------------------------------------------
(* analysis._align_returns and analysis.compute_correlation_matrix *)

\* The ticker symbols of the model, in str order ("AAA" < "BBB" < "CCC").
Symbols == <<"AAA", "BBB", "CCC">>
SymbolRank(t) == CHOOSE i \in 1..Len(Symbols) : Symbols[i] = t

\* sorted(keys): ascending by str order.
RECURSIVE SortedSymbols(_)
SortedSymbols(keys) ==
    IF keys = {} THEN <<>>
    ELSE LET t == CHOOSE x \in keys : \A y \in keys : SymbolRank(x) <= SymbolRank(y)
         IN  <<t>> \o SortedSymbols(keys \ {t})

RECURSIVE SortedDates(_)
SortedDates(dates) ==
    IF dates = {} THEN <<>>
    ELSE LET d == CHOOSE x \in dates : \A y \in dates : x <= y
         IN  <<d>> \o SortedDates(dates \ {d})

\* {obs_date: value for obs_date, value in returns}: a later return of a date
\* replaces an earlier one.
DictOfReturns(returns) ==
    [d \in {returns[i][1] : i \in 1..Len(returns)} |->
        LET last == CHOOSE i \in 1..Len(returns) :
                        /\ returns[i][1] = d
                        /\ \A j \in 1..Len(returns) : returns[j][1] = d => j <= i
        IN  returns[last][2]]

\* Lines 56-58: the loop over price_history.items(), from item i on; the first
\* compute_returns that raises ends the call.
RECURSIVE TickerReturns(_, _, _, _)
TickerReturns(items, i, rt, ticker_returns) ==
    IF i > Len(items) THEN Returned(ticker_returns)
    ELSE LET r == compute_returns(items[i][2], rt)
         IN  IF ~r.ok THEN r
             ELSE TickerReturns(items, i + 1, rt,
                                ticker_returns @@ (items[i][1] :> DictOfReturns(r.value)))

\* set.intersection(*(set(values.keys()) for values in ticker_returns.values()))
CommonDates(ticker_returns) ==
    LET keys == DOMAIN ticker_returns
        any == CHOOSE t \in keys : TRUE
    IN  {d \in DOMAIN ticker_returns[any] : \A t \in keys : d \in DOMAIN ticker_returns[t]}

\* Lines 60-74 with the overlap check of lines 64-66 ahead of the ticker count.
AlignFromOverlapFirst(ticker_returns) ==
    LET tickers == SortedSymbols(DOMAIN ticker_returns) IN
    IF tickers = <<>> THEN Raised(MSG_TWO_TICKERS)
    ELSE LET common_dates == CommonDates(ticker_returns) IN
        IF Cardinality(common_dates) < 2 THEN Raised(MSG_NO_OVERLAP)
        ELSE IF Len(tickers) < 2 THEN Raised(MSG_TWO_TICKERS)
        ELSE LET sorted_dates == SortedDates(common_dates)
                 matrix == [k \in 1..Len(sorted_dates) |->
                              [c \in 1..Len(tickers) |-> ticker_returns[tickers[c]][sorted_dates[k]]]]
             IN  Returned([tickers |-> tickers, matrix |-> matrix])

\* Lines 60-74 with one common date accepted at line 65.
AlignFromOneDateEnough(ticker_returns) ==
    LET tickers == SortedSymbols(DOMAIN ticker_returns) IN
    IF Len(tickers) < 2 THEN Raised(MSG_TWO_TICKERS)
    ELSE LET common_dates == CommonDates(ticker_returns) IN
        IF Cardinality(common_dates) < 1 THEN Raised(MSG_NO_OVERLAP)
        ELSE LET sorted_dates == SortedDates(common_dates)
                 matrix == [k \in 1..Len(sorted_dates) |->
                              [c \in 1..Len(tickers) |-> ticker_returns[tickers[c]][sorted_dates[k]]]]
             IN  Returned([tickers |-> tickers, matrix |-> matrix])

\* Lines 60-74, given ticker_returns.
AlignFrom(ticker_returns) ==
    LET tickers == SortedSymbols(DOMAIN ticker_returns) IN
    IF Len(tickers) < 2 THEN Raised(MSG_TWO_TICKERS)
    ELSE LET common_dates == CommonDates(ticker_returns) IN
        IF Cardinality(common_dates) < 2 THEN Raised(MSG_NO_OVERLAP)
        ELSE LET sorted_dates == SortedDates(common_dates)
                 matrix == [k \in 1..Len(sorted_dates) |->
                              [c \in 1..Len(tickers) |-> ticker_returns[tickers[c]][sorted_dates[k]]]]
             IN  Returned([tickers |-> tickers, matrix |-> matrix])

_align_returns(items, rt) ==
    Assigned(TickerReturns(items, 1, rt, <<>>),
             LAMBDA r : IF ~r.ok THEN r ELSE AlignFrom(r.value))

RECURSIVE RSum(_)
RSum(xs) == IF xs = <<>> THEN <<0, 1>> ELSE RAdd(RSum(Front(xs)), Last(xs))

\* statistics.mean(column)
mean(column) == RDiv(RSum(column), RInt(Len(column)))

\* The square of line 92's stdev: sum((value - column_mean) ** 2) / (n - 1).
Variance(column, column_mean) ==
    RDiv(RSum([k \in 1..Len(column) |->
                  RMul(RSub(column[k], column_mean), RSub(column[k], column_mean))]),
         RInt(Len(column) - 1))

\* Lines 109-111.
Covariance(matrix, means, i, j) ==
    RDiv(RSum([k \in 1..Len(matrix) |->
                  RMul(RSub(matrix[k][i], means[i]), RSub(matrix[k][j], means[j]))]),
         RInt(Len(matrix) - 1))

\* max(-1.0, min(1.0, correlation))
Clamp(v) ==
    IF v.sgn > 0 /\ RLt(<<1, 1>>, v.sq) THEN One
    ELSE IF v.sgn < 0 /\ RLt(<<1, 1>>, v.sq) THEN MinusOne
    ELSE v

\* A cell without the i == j branch of lines 100-102.
CellNoDiagonal(matrix, means, variances, i, j) ==
    IF variances[i][1] = 0 \/ variances[j][1] = 0 THEN Zero
    ELSE LET covariance == Covariance(matrix, means, i, j)
         IN  Clamp(Surd(Sign(covariance[1]),
                        RDiv(RMul(covariance, covariance), RMul(variances[i], variances[j]))))

\* A cell dividing by std_i * std_i in line 112.
CellStdTypo(matrix, means, variances, i, j) ==
    IF i = j THEN One
    ELSE IF variances[i][1] = 0 \/ variances[j][1] = 0 THEN Zero
    ELSE LET covariance == Covariance(matrix, means, i, j)
         IN  Clamp(Surd(Sign(covariance[1]),
                        RDiv(RMul(covariance, covariance), RMul(variances[i], variances[i]))))

\* Lines 100-113: one cell.  stdev = sqrt(variance), and isclose(stdev, 0.0),
\* with its default tolerances (rel_tol=1e-09, abs_tol=0.0), is stdev == 0.0.
Cell(matrix, means, variances, i, j) ==
    IF i = j THEN One
    ELSE IF variances[i][1] = 0 \/ variances[j][1] = 0 THEN Zero
    ELSE LET covariance == Covariance(matrix, means, i, j)
         IN  Clamp(Surd(Sign(covariance[1]),
                        RDiv(RMul(covariance, covariance), RMul(variances[i], variances[j]))))

\* Lines 89-94: the column means and the squares of the column stdevs.
Columns(tickers, matrix) ==
    [c \in 1..Len(tickers) |-> [k \in 1..Len(matrix) |-> matrix[k][c]]]

Means(tickers, matrix) ==
    [c \in 1..Len(tickers) |-> mean(Columns(tickers, matrix)[c])]

Variances(tickers, matrix, means) ==
    [c \in 1..Len(tickers) |-> Variance(Columns(tickers, matrix)[c], means[c])]

\* Lines 96-116.
CorrelationResult(tickers, matrix, means, variances) ==
    [tickers |-> tickers,
     matrix |-> [i \in 1..Len(tickers) |->
                   [j \in 1..Len(tickers) |-> Cell(matrix, means, variances, i, j)]],
     observation_count |-> Len(matrix)]

\* Lines 85-116, given the aligned returns.
CorrelateAligned(tickers, matrix) ==
    IF Len(matrix) < 2 THEN Raised(MSG_NO_OBSERVATIONS)
    ELSE Assigned(Means(tickers, matrix), LAMBDA means :
         Assigned(Variances(tickers, matrix, means), LAMBDA stdevs :
         Returned(CorrelationResult(tickers, matrix, means, stdevs))))

\* The whole call, as its caller sees it.
compute_correlation_matrix(items, rt) ==
    Assigned(_align_returns(items, rt),
             LAMBDA aligned : IF ~aligned.ok THEN aligned
                              ELSE CorrelateAligned(aligned.value.tickers, aligned.value.matrix))

\* The locals of a call of compute_correlation_matrix, before its first step.
NewFrame ==
    [pc |-> "returns", i |-> 1, ticker_returns |-> <<>>, tickers |-> <<>>,
     matrix |-> <<>>, means |-> <<>>, variances |-> <<>>, outcome |-> NoOutcome]

\* sorted(series, ...) builds a new list: the caller's series is left as it was.
SeriesAfterSortInPlace(s) == SortedByDate(s)

SeriesAfterSort(s) == s

\* Lines 56-58: one iteration of the loop over price_history.items().
StepTickerReturns(c) ==
    LET f == frames[c] IN
    /\ f.pc = "returns"
    /\ f.i <= Len(price_history)
    /\ LET r == compute_returns(price_history[f.i][2], return_type) IN
       frames' = [frames EXCEPT ![c] =
           IF ~r.ok THEN [f EXCEPT !.pc = "done", !.outcome = r]
           ELSE [f EXCEPT !.i = f.i + 1,
                          !.ticker_returns = @ @@ (price_history[f.i][1] :> DictOfReturns(r.value))]]
    /\ price_history' = [price_history EXCEPT ![f.i][2] = SeriesAfterSort(@)]
    /\ UNCHANGED <<callVars, return_type, appVars>>

\* Lines 60-74: the ticker count, the common dates and the aligned matrix.
StepAlign(c) ==
    LET f == frames[c] IN
    /\ f.pc = "returns"
    /\ f.i > Len(price_history)
    /\ LET aligned == AlignFrom(f.ticker_returns) IN
       frames' = [frames EXCEPT ![c] =
           IF ~aligned.ok THEN [f EXCEPT !.pc = "done", !.outcome = aligned]
           ELSE [f EXCEPT !.pc = "stats", !.tickers = aligned.value.tickers,
                          !.matrix = aligned.value.matrix]]
    /\ UNCHANGED <<callVars, return_type, price_history, appVars>>

\* Lines 85-94: the observation count, the means and the stdevs.
StepStats(c) ==
    LET f == frames[c] IN
    /\ f.pc = "stats"
    /\ frames' = [frames EXCEPT ![c] =
           IF Len(f.matrix) < 2
           THEN [f EXCEPT !.pc = "done", !.outcome = Raised(MSG_NO_OBSERVATIONS)]
           ELSE [f EXCEPT !.pc = "cells", !.means = Means(f.tickers, f.matrix),
                          !.variances = Variances(f.tickers, f.matrix, Means(f.tickers, f.matrix))]]
    /\ UNCHANGED <<callVars, return_type, price_history, appVars>>

\* Lines 96-116: the cells, and the return.
StepCells(c) ==
    LET f == frames[c] IN
    /\ f.pc = "cells"
    /\ frames' = [frames EXCEPT ![c] =
           [f EXCEPT !.pc = "done",
                     !.outcome = Returned(CorrelationResult(f.tickers, f.matrix,
                                                            f.means, f.variances))]]
    /\ UNCHANGED <<callVars, return_type, price_history, appVars>>

StepCall(c) == StepTickerReturns(c) \/ StepAlign(c) \/ StepStats(c) \/ StepCells(c)

----------------------------------------------------------------------------
(* Real numbers of the form s * sqrt(q), and a + b * sqrt(q) *)

\* a + b * sqrt(q), a and b rationals.
Quad(a, b, q) == [a |-> a, b |-> b, q |-> q]
QOfSurd(v) == Quad(<<0, 1>>, RInt(v.sgn), v.sq)
QOfRat(r) == Quad(r, <<0, 1>>, <<0, 1>>)
QAddR(x, r) == Quad(RAdd(x.a, r), x.b, x.q)
QMulR(x, r) == Quad(RMul(x.a, r), RMul(x.b, r), x.q)

\* The sign of a + b * sqrt(q).
QSign(x) ==
    LET sa == Sign(x.a[1])
        sb == IF x.q[1] = 0 THEN 0 ELSE Sign(x.b[1])
        a2 == RMul(x.a, x.a)
        b2q == RMul(RMul(x.b, x.b), x.q)
    IN  IF sb = 0 THEN sa
        ELSE IF sa = 0 \/ sa = sb THEN sb
        ELSE IF RLt(b2q, a2) THEN sa
        ELSE IF RLt(a2, b2q) THEN sb
        ELSE 0

\* x < r and x > r for a rational r.
QLtR(x, r) == QSign(QAddR(x, RSub(<<0, 1>>, r))) < 0
QGtR(x, r) == QSign(QAddR(x, RSub(<<0, 1>>, r))) > 0

\* float's min(r, x) and max(r, x), r first: x only when strictly beyond r.
MinR(r, x) == IF QLtR(x, r) THEN x ELSE QOfRat(r)
MaxR(r, x) == IF QGtR(x, r) THEN x ELSE QOfRat(r)

\* int(x): truncation toward zero.  The largest n >= lo with n <= x, found by
\* doubling then bisection.
RECURSIVE FloorBetween(_, _, _)
FloorBetween(x, lo, hi) ==
    IF hi - lo <= 1 THEN lo
    ELSE LET mid == (lo + hi) \div 2
         IN  IF QLtR(x, RInt(mid)) THEN FloorBetween(x, lo, mid)
             ELSE FloorBetween(x, mid, hi)

RECURSIVE BoundAbove(_, _)
BoundAbove(x, hi) == IF QLtR(x, RInt(hi)) THEN hi ELSE BoundAbove(x, 2 * hi)

int(x) ==
    IF QSign(x) >= 0 THEN FloorBetween(x, 0, BoundAbove(x, 1))
    ELSE LET y == QMulR(x, <<-1, 1>>)
         IN  -FloorBetween(y, 0, BoundAbove(y, 1))

----------------------------------------------------------------------------
(* visualization.correlation_to_hex *)

NEGATIVE_COLOUR == <<33, 102, 172>>
NEUTRAL_COLOUR == <<247, 247, 247>>
POSITIVE_COLOUR == <<178, 24, 43>>

HexDigits == <<"0", "1", "2", "3", "4", "5", "6", "7",
               "8", "9", "a", "b", "c", "d", "e", "f">>

\* format(n, "x") for n >= 0.
RECURSIVE HexOf(_)
HexOf(n) == IF n < 16 THEN HexDigits[n + 1] ELSE HexOf(n \div 16) \o HexDigits[(n % 16) + 1]

\* format(n, "02x"): at least two characters, zero-padded, the sign first.
Format02x(n) ==
    IF n < 0 THEN "-" \o HexOf(-n)
    ELSE IF n < 16 THEN "0" \o HexOf(n)
    ELSE HexOf(n)

\* Lines 14-16 without the + 0.5.
ChannelTruncated(start, end, fraction) ==
    int(QAddR(QMulR(fraction, RInt(end - start)), RInt(start)))

\* int(start[k] + (end[k] - start[k]) * fraction + 0.5)
Channel(start, end, fraction) ==
    int(QAddR(QAddR(QMulR(fraction, RInt(end - start)), RInt(start)), <<1, 2>>))

_interpolate_colour(start, end, fraction0) ==
    LET fraction == MaxR(<<0, 1>>, MinR(<<1, 1>>, fraction0))
        red == Channel(start[1], end[1], fraction)
        green == Channel(start[2], end[2], fraction)
        blue == Channel(start[3], end[3], fraction)
    IN  "#" \o Format02x(red) \o Format02x(green) \o Format02x(blue)

correlation_to_hex(v) ==
    LET clamped == MaxR(<<-1, 1>>, MinR(<<1, 1>>, QOfSurd(v)))
    IN  IF QSign(clamped) >= 0
        THEN _interpolate_colour(NEUTRAL_COLOUR, POSITIVE_COLOUR, clamped)
        ELSE _interpolate_colour(NEGATIVE_COLOUR, NEUTRAL_COLOUR, QAddR(clamped, <<1, 1>>))

----------------------------------------------------------------------------
(* data.fetch_daily_closes *)

MSG_NO_TICKERS == "At least one ticker symbol must be provided."
MSG_NO_YFINANCE == "The 'yfinance' package is required to download market data. Install it with 'pip install yfinance'."
MSG_NO_PRICE_DATA == "No price data was retrieved for the requested tickers."
\* Whatever yf.download raises: its text is the provider's.
MSG_DOWNLOAD_FAILED == "download failed"

\* str.upper() on the words the model enters.
Upper(word) ==
    CASE word = "aaa" -> "AAA"
      [] word = "bbb" -> "BBB"
      [] OTHER -> word

\* The symbols in first-seen order, upper-cased, without repeats.
RECURSIVE _normalise_tickers(_)
_normalise_tickers(tickers) ==
    IF tickers = <<>> THEN <<>>
    ELSE LET cleaned == _normalise_tickers(Front(tickers))
             symbol == Upper(Last(tickers))
         IN  IF \E i \in 1..Len(cleaned) : cleaned[i] = symbol THEN cleaned
             ELSE Append(cleaned, symbol)

\* The loop over the normalised symbols: a symbol whose download is empty is
\* left out of the history.
RECURSIVE History(_, _)
History(normalised, market) ==
    IF normalised = <<>> THEN <<>>
    ELSE LET symbol == Last(normalised)
         IN  IF market[symbol] = <<>> THEN History(Front(normalised), market)
             ELSE Append(History(Front(normalised), market), <<symbol, market[symbol]>>)

\* provider: what importing yfinance and calling yf.download do this time.
fetch_daily_closes(tickers, provider) ==
    LET normalised == _normalise_tickers(tickers)
    IN  IF normalised = <<>> THEN Raised(MSG_NO_TICKERS)
        ELSE IF provider.state = "missing" THEN Raised(MSG_NO_YFINANCE)
        ELSE IF provider.state = "failing" THEN Raised(MSG_DOWNLOAD_FAILED)
        ELSE IF History(normalised, provider.market) = <<>> THEN Raised(MSG_NO_PRICE_DATA)
        ELSE Returned(History(normalised, provider.market))

----------------------------------------------------------------------------
(* app.HeatmapApp *)

CELL_SIZE == 70
LABEL_OFFSET == 90
CANVAS_WIDTH == 600
CANVAS_HEIGHT == 400

\* An entry text that strptime(raw.strip(), "%Y-%m-%d") rejects, and one it
\* accepts, by the day it names.
NoDate == [ok |-> FALSE, day |-> 0]
DateText(d) == [ok |-> TRUE, day |-> d]

Dialog(title, message) == [title |-> title, message |-> message]

EmptyCanvas == [width |-> CANVAS_WIDTH, height |-> CANVAS_HEIGHT, labels |-> <<>>, cells |-> <<>>]
EmptyTable == [columns |-> <<>>, rows |-> <<>>]

\* The state after HeatmapApp.__init__: a valid form, nothing built.
HeatmapAppInit ==
    /\ tickers_var = <<"AAA", "BBB">>
    /\ start_var = DateText(1)
    /\ end_var = DateText(2)
    /\ return_var = "log"
    /\ status_var = "Enter tickers and click 'Build heatmap'."
    /\ canvas = EmptyCanvas
    /\ table = EmptyTable
    /\ dialogs = <<>>
    /\ result = NoOutcome

\* raw, already split at whitespace and commas: each word upper-cased.
_parse_tickers(raw) == [i \in 1..Len(raw) |-> Upper(raw[i])]

\* The showerror of _parse_date, if any.
_parse_date(raw, label) ==
    IF raw.ok THEN <<>> ELSE <<Dialog("Validation error", "Invalid " \o label \o " date")>>

\* round(100 * |v|), a tie going to the even neighbour.
Hundredths(v) ==
    LET x == Quad(<<0, 1>>, <<100, 1>>, v.sq)
        lo == int(x)
        side == QSign(QAddR(x, RSub(<<0, 1>>, RAdd(RInt(lo), <<1, 2>>))))
    IN  IF side > 0 THEN lo + 1
        ELSE IF side < 0 THEN lo
        ELSE IF lo % 2 = 0 THEN lo ELSE lo + 1

\* f"{value:.2f}"
Format2f(v) ==
    LET h == Hundredths(v)
    IN  (IF v.sgn < 0 THEN "-" ELSE "") \o ToString(h \div 100) \o "."
        \o ToString((h % 100) \div 10) \o ToString(h % 10)

StatusText(r) ==
    "Computed correlations using " \o ToString(r.observation_count)
        \o " overlapping daily returns."

_render_heatmap(r) ==
    LET n == Len(r.tickers)
        size == CELL_SIZE
        offset == LABEL_OFFSET
    IN  [width |-> offset + size * n,
         height |-> offset + size * n,
         labels |-> [k \in 1..(2 * n) |->
             LET idx == (k - 1) \div 2
             IN  IF k % 2 = 1
                 THEN [x |-> offset + idx * size + size \div 2, y |-> offset \div 2,
                       text |-> r.tickers[idx + 1], angle |-> 90]
                 ELSE [x |-> offset \div 2, y |-> offset + idx * size + size \div 2,
                       text |-> r.tickers[idx + 1], angle |-> 0]],
         cells |-> [k \in 1..(n * n) |->
             LET row_idx == (k - 1) \div n
                 col_idx == (k - 1) % n
                 v == r.matrix[row_idx + 1][col_idx + 1]
             IN  [x0 |-> offset + col_idx * size, y0 |-> offset + row_idx * size,
                  x1 |-> offset + col_idx * size + size, y1 |-> offset + row_idx * size + size,
                  fill |-> correlation_to_hex(v), text |-> Format2f(v)]]]

_render_table(r) ==
    [columns |-> <<"Ticker">> \o r.tickers,
     rows |-> [i \in 1..Len(r.tickers) |->
                  <<r.tickers[i]>> \o [j \in 1..Len(r.matrix[i]) |-> Format2f(r.matrix[i][j])]]]

\* Lines 77-88: the dialogs of the form's validation, none when it passes.
Validation ==
    IF Len(_parse_tickers(tickers_var)) < 2
    THEN <<Dialog("Validation error", "Enter at least two ticker symbols.")>>
    ELSE IF ~start_var.ok \/ ~end_var.ok
    THEN _parse_date(start_var, "start") \o _parse_date(end_var, "end")
    ELSE IF start_var.day >= end_var.day
    THEN <<Dialog("Validation error", "Start date must be earlier than end date.")>>
    ELSE <<>>

\* Lines 90-100: the download and the analysis; the first that raises ends
\* the handler with its dialog.
Analysis(provider) ==
    LET fetched == fetch_daily_closes(_parse_tickers(tickers_var), provider)
    IN  IF ~fetched.ok
        THEN [dialogs |-> <<Dialog("Data error", "Unable to download prices: " \o fetched.error)>>,
              computed |-> NoOutcome]
        ELSE Assigned(compute_correlation_matrix(fetched.value, return_var),
                      LAMBDA computed :
                          IF ~computed.ok
                          THEN [dialogs |-> <<Dialog("Analysis error", computed.error)>>,
                                computed |-> NoOutcome]
                          ELSE [dialogs |-> <<>>, computed |-> computed])

\* The desktop application: the words typed in the tickers entry, the date
\* entries, and what the price provider answers.
AppMaxTickers == 2
AppWords == {"aaa", "BBB"}
AppSymbols == {"AAA", "BBB"}
TickerTexts == SeqsUpTo(AppWords, AppMaxTickers)
DateTexts == {NoDate, DateText(1), DateText(2)}

AppCloses ==
    {DailySeries(1, prices) :
        prices \in {<<>>, <<1>>, <<1, 2, 1, 2>>, <<1, 2, 4, 2>>}}

Providers ==
    {[state |-> st, market |-> [symbol \in AppSymbols |-> <<>>]] : st \in {"missing", "failing"}}
    \cup {[state |-> "answering", market |-> m] : m \in [AppSymbols -> AppCloses]}

\* The widgets cleared for the new drawing as soon as the handler starts.
ShownAfterClearingFirst(computed, shown) ==
    IF computed.ok
    THEN <<StatusText(computed.value), _render_heatmap(computed.value),
           _render_table(computed.value)>>
    ELSE <<shown[1], EmptyCanvas, EmptyTable>>

\* Lines 102-106 are reached only past every return: the status line, the
\* canvas and the table after the handler.
ShownAfter(computed, shown) ==
    IF computed.ok
    THEN <<StatusText(computed.value), _render_heatmap(computed.value),
           _render_table(computed.value)>>
    ELSE shown

Finish(shown_dialogs, computed) ==
    /\ dialogs' = shown_dialogs
    /\ \E shown \in {ShownAfter(computed, <<status_var, canvas, table>>)} :
           status_var' = shown[1] /\ canvas' = shown[2] /\ table' = shown[3]
    /\ result' = IF computed.ok THEN computed ELSE result
    /\ UNCHANGED <<callVars, return_type, corrVars, formVars>>

\* The "Build heatmap" button.
build_heatmap ==
    IF Validation # <<>> THEN Finish(Validation, NoOutcome)
    ELSE \E provider \in Providers :
             \E analysed \in {Analysis(provider)} : Finish(analysed.dialogs, analysed.computed)

\* The user's edits of the form.
EditTickers(raw) ==
    /\ tickers_var' = raw
    /\ UNCHANGED <<callVars, return_type, corrVars, start_var, end_var, return_var,
                   shownVars, dialogs, result>>

EditStart(raw) ==
    /\ start_var' = raw
    /\ UNCHANGED <<callVars, return_type, corrVars, tickers_var, end_var, return_var,
                   shownVars, dialogs, result>>

EditEnd(raw) ==
    /\ end_var' = raw
    /\ UNCHANGED <<callVars, return_type, corrVars, tickers_var, start_var, return_var,
                   shownVars, dialogs, result>>

SelectReturn(rt) ==
    /\ return_var' = rt
    /\ UNCHANGED <<callVars, return_type, corrVars, tickers_var, start_var, end_var,
                   shownVars, dialogs, result>>

----------------------------------------------------------------------------
(* Bounds and input domains *)

HexMaxDen == 8
HexMaxAbs == 2

\* The reals s * sqrt(n/d), d up to HexMaxDen, of magnitude up to HexMaxAbs.
HexValues ==
    {Surd(s, Rat(n, d)) : s \in {-1, 0, 1},
                          n \in 0..(HexMaxAbs * HexMaxAbs * HexMaxDen),
                          d \in 1..HexMaxDen}

RetMaxLen == 4
RetDates == 1..3
RetPrices == {-1, 0, 1, 2}
ReturnTypes == {"log", "pct", "simple"}

CorrMaxLen == 4
CorrPrices == {1, 2}
CorrStarts == {1, 2}
CorrSymbols == {"AAA", "BBB"}

CorrSeries ==
    {DailySeries(start, prices) : start \in CorrStarts, prices \in SeqsUpTo(CorrPrices, CorrMaxLen)}

\* Any dates, in any order and repeated, at one price.
AlignMaxLen == 4
AlignDates == 1..3
AlignSeries == SeqsUpTo(AlignDates \X {1}, AlignMaxLen)

\* Insertion orders that are not the sorted one.
AlignKeyOrders == {<<>>, <<"AAA">>, <<"BBB">>, <<"BBB", "AAA">>}

\* The insertion orders of a mapping's keys: the sequences of distinct symbols.
CorrKeyOrders ==
    {order \in SeqsUpTo(CorrSymbols, Cardinality(CorrSymbols)) :
        \A i, j \in 1..Len(order) : i # j => order[i] # order[j]}

\* Series of distinct dates 1..n, in ascending or in descending order.
PureMaxLen == 3
PurePrices == {1, 2}
PureSeries ==
    LET ascending == {DailySeries(1, prices) : prices \in SeqsUpTo(PurePrices, PureMaxLen)}
    IN  ascending \cup {[i \in 1..Len(s) |-> s[Len(s) + 1 - i]] : s \in ascending}

----------------------------------------------------------------------------
(* The parts of the state a specification leaves aside *)

NoSingleCall == pc = "idle" /\ series = <<>> /\ value = Zero /\ outcome = NoOutcome

----------------------------------------------------------------------------
(* The returns engine alone: one call of compute_returns on any series. *)

InitReturns ==
    /\ pc = "ready"
    /\ series \in SeqsUpTo(RetDates \X RetPrices, RetMaxLen)
    /\ return_type \in ReturnTypes
    /\ outcome = NoOutcome
    /\ value = Zero
    /\ price_history = <<>>
    /\ frames = <<>>
    /\ HeatmapAppInit

CallComputeReturns ==
    /\ pc = "ready"
    /\ outcome' = compute_returns(series, return_type)
    /\ pc' = "done"
    /\ UNCHANGED <<series, value, return_type, corrVars, appVars>>

NextReturns == CallComputeReturns

SpecReturns == InitReturns /\ [][NextReturns]_vars

----------------------------------------------------------------------------
(* The colour mapper alone: one call of correlation_to_hex on any value. *)

InitHex ==
    /\ pc = "ready"
    /\ value \in HexValues
    /\ series = <<>>
    /\ return_type = "log"
    /\ outcome = NoOutcome
    /\ price_history = <<>>
    /\ frames = <<>>
    /\ HeatmapAppInit

CallCorrelationToHex ==
    /\ pc = "ready"
    /\ outcome' = Returned(correlation_to_hex(value))
    /\ pc' = "done"
    /\ UNCHANGED <<series, value, return_type, corrVars, appVars>>

NextHex == CallCorrelationToHex

SpecHex == InitHex /\ [][NextHex]_vars

----------------------------------------------------------------------------
(* The correlation engine alone: one call of compute_correlation_matrix. *)

InitCorr ==
    /\ \E order \in CorrKeyOrders, data \in [CorrSymbols -> CorrSeries] :
           price_history = [i \in 1..Len(order) |-> <<order[i], data[order[i]]>>]
    /\ return_type \in {"log", "pct"}
    /\ frames = <<NewFrame>>
    /\ NoSingleCall
    /\ HeatmapAppInit

NextCorr == StepCall(1)

SpecCorr == InitCorr /\ [][NextCorr]_vars

\* The same call, on series of any dates: in any order, with repeats.
InitAlign ==
    /\ \E order \in AlignKeyOrders, data \in [CorrSymbols -> AlignSeries] :
           price_history = [i \in 1..Len(order) |-> <<order[i], data[order[i]]>>]
    /\ return_type = "log"
    /\ frames = <<NewFrame>>
    /\ NoSingleCall
    /\ HeatmapAppInit

SpecAlign == InitAlign /\ [][NextCorr]_vars

----------------------------------------------------------------------------
(* Two calls of compute_correlation_matrix on one mapping, in any interleaving
   of their steps. *)

InitPure ==
    /\ \E data \in [CorrSymbols -> PureSeries] :
           price_history = [i \in 1..2 |-> <<Symbols[i], data[Symbols[i]]>>]
    /\ return_type \in {"log", "pct"}
    /\ frames = <<NewFrame, NewFrame>>
    /\ NoSingleCall
    /\ HeatmapAppInit

NextPure == \E c \in 1..2 : StepCall(c)

SpecPure == InitPure /\ [][NextPure]_vars

----------------------------------------------------------------------------
(* The desktop application: edits of the form and clicks on the button. *)

InitApp ==
    /\ HeatmapAppInit
    /\ NoSingleCall
    /\ return_type = "log"
    /\ price_history = <<>>
    /\ frames = <<>>

NextApp ==
    \/ build_heatmap
    \/ \E raw \in TickerTexts : EditTickers(raw)
    \/ \E raw \in DateTexts : EditStart(raw)
    \/ \E raw \in DateTexts : EditEnd(raw)
    \/ \E rt \in {"log", "pct"} : SelectReturn(rt)

SpecApp == InitApp /\ [][NextApp]_vars

----------------------------------------------------------------------------
(* Claims about the returns engine *)

RECURSIVE Pow2(_)
Pow2(k) == IF k = 0 THEN 1 ELSE 2 * Pow2(k - 1)

\* The points of s dated d, in their order in s.
DatedAt(s, d) == SelectSeq(s, LAMBDA item : item[1] = d)

\* s ordered by date ascending, points of one date in their original order:
\* the blocks DatedAt(s, d) for d ascending.
RECURSIVE BlocksFrom(_, _)
BlocksFrom(s, dates) ==
    IF dates = {} THEN <<>>
    ELSE LET d == CHOOSE x \in dates : \A y \in dates : x <= y
         IN  DatedAt(s, d) \o BlocksFrom(s, dates \ {d})

StableByDate(s) == BlocksFrom(s, {s[i][1] : i \in 1..Len(s)})

\* The positions i of t whose pair (t[i-1], t[i]) has both prices > 0, ascending.
ValidPairs(t) ==
    SelectSeq([i \in 1..(Len(t) - 1) |-> i + 1],
              LAMBDA i : t[i - 1][2] > 0 /\ t[i][2] > 0)

\* v is the return of the given type from price p to price c.
IsReturnValue(rt, v, p, c) ==
    IF rt = "log"
    THEN /\ v[2] = 1
         /\ IF v[1] >= 0 THEN p * Pow2(v[1]) = c ELSE c * Pow2(-v[1]) = p
    ELSE v[2] > 0 /\ v[1] * p = v[2] * (c - p)

ReturnsInputOk == pc = "done" /\ Len(series) >= 2 /\ return_type \in {"log", "pct"}

\* C3: compute_returns on a series of at least two points, with a recognised
\* return type, emits exactly one return per consecutive pair of the series
\* sorted stably by date whose two prices are both > 0, in order, dated with
\* the pair's current date and valued ln(current/previous) or
\* (current - previous)/previous; a pair touching a price <= 0 emits nothing
\* and the baseline still advances.
C3_ReturnsPerValidPair ==
    ReturnsInputOk =>
        LET t == StableByDate(series)
            pairs == ValidPairs(t)
            emitted == outcome.value
        IN  /\ Len(emitted) = Len(pairs)
            /\ \A k \in 1..Len(pairs) :
                   /\ emitted[k][1] = t[pairs[k]][1]
                   /\ IsReturnValue(return_type, emitted[k][2],
                                    t[pairs[k] - 1][2], t[pairs[k]][2])

\* A non-positive price between two positive ones, in a series that still has
\* a valid pair: the two transitions touching it are the only ones missing.
C3_Witness ==
    /\ ReturnsInputOk
    /\ Len(series) = 4
    /\ series # SortedByDate(series)
    /\ LET t == SortedByDate(series)
       IN  t[1][2] > 0 /\ t[2][2] <= 0 /\ t[3][2] > 0 /\ t[4][2] > 0
    /\ outcome.ok /\ Len(outcome.value) = 1

\* C4: with a recognised return type, compute_returns fails, with
\* InsufficientData, exactly when the series has fewer than two points or no
\* consecutive pair of the date-sorted series has both prices > 0; otherwise it
\* returns a non-empty sequence.
C4_FailsIffNoValidPair ==
    (pc = "done" /\ return_type \in {"log", "pct"}) =>
        LET none == Len(series) < 2 \/ ValidPairs(StableByDate(series)) = <<>>
        IN  /\ none => ~outcome.ok /\ outcome.error \in InsufficientData
            /\ ~none => outcome.ok /\ outcome.value # <<>>

\* A series with a non-positive price that still yields a return, and the
\* series [p, 0, q] of the test that yields none.
C4_Witness ==
    /\ pc = "done" /\ return_type \in {"log", "pct"}
    /\ \E i \in 1..Len(series) : series[i][2] <= 0
    /\ outcome.ok

C4_WitnessFails ==
    /\ pc = "done" /\ return_type = "log"
    /\ series = <<<<1, 1>>, <<2, 0>>, <<3, 2>>>>
    /\ outcome = Raised(MSG_NO_RETURNS)

\* C5 as stated: whatever the series, an unrecognised return type fails with
\* the InvalidParameter error.
C5_Original ==
    (pc = "done" /\ return_type \notin {"log", "pct"}) =>
        ~outcome.ok /\ outcome.error \in InvalidParameter

\* C5 amended: with an unrecognised return type, a series of at least two
\* points fails with the InvalidParameter error "Return type must be ...",
\* whatever its prices; a series of fewer than two points fails with the
\* InsufficientData error "At least two price observations ..." first.  The
\* two are told apart by message.
C5_TypeErrorAfterLength ==
    (pc = "done" /\ return_type \notin {"log", "pct"}) =>
        /\ ~outcome.ok
        /\ Len(series) >= 2 =>
              outcome.error = MSG_RETURN_TYPE /\ outcome.error \notin InsufficientData
        /\ Len(series) < 2 =>
              outcome.error = MSG_TOO_FEW_PRICES /\ outcome.error \notin InvalidParameter

C5_Witness ==
    /\ pc = "done" /\ return_type \notin {"log", "pct"}
    /\ Len(series) >= 2
    /\ \A i \in 1..Len(series) : series[i][2] <= 0
    /\ outcome = Raised(MSG_RETURN_TYPE)

----------------------------------------------------------------------------
(* Claims about the colour mapper *)

\* L <= M * sqrt(q), for integers L and M and a rational q >= 0.
LeMulSqrt(L, M, q) ==
    IF M >= 0 THEN L <= 0 \/ L * L * q[2] <= M * M * q[1]
    ELSE L <= 0 /\ L * L * q[2] >= M * M * q[1]

\* ch = floor(s + (e - s) * f + 0.5), i.e. 2ch - 2s - 1 <= 2(e - s)f < 2ch - 2s + 1,
\* where f = t when upper and f = 1 - t otherwise, t = sqrt(q).
IsRoundedChannel(ch, s, e, upper, q) ==
    LET M == 2 * (e - s)
        L == 2 * ch - 2 * s - 1
    IN  IF upper THEN LeMulSqrt(L, M, q) /\ ~LeMulSqrt(L + 2, M, q)
        ELSE LeMulSqrt(L - M, -M, q) /\ ~LeMulSqrt(L + 2 - M, -M, q)

TwoHexDigits(n) == HexDigits[(n \div 16) + 1] \o HexDigits[(n % 16) + 1]

\* C7: correlation_to_hex(v) is "#rrggbb", lowercase, each channel
\* floor(s + (e - s) * f + 0.5) with c = v clamped to [-1, 1] and (s, e, f) =
\* (neutral, positive, c) when c >= 0, (negative, neutral, 1 + c) when c < 0;
\* every channel is in 0..255; v <= -1 gives "#2166ac", v = 0 gives "#f7f7f7"
\* and v >= 1 gives "#b2182b".
C7_HexIsRoundedInterpolation ==
    pc = "done" =>
        LET q == IF RLt(<<1, 1>>, value.sq) THEN <<1, 1>> ELSE value.sq
            upper == value.sgn >= 0
            s == IF upper THEN <<247, 247, 247>> ELSE <<33, 102, 172>>
            e == IF upper THEN <<178, 24, 43>> ELSE <<247, 247, 247>>
            chans == [k \in 1..3 |->
                        {ch \in 0..255 : IsRoundedChannel(ch, s[k], e[k], upper, q)}]
        IN  /\ \A k \in 1..3 : Cardinality(chans[k]) = 1
            /\ \E r \in chans[1], g \in chans[2], b \in chans[3] :
                   outcome.value = "#" \o TwoHexDigits(r) \o TwoHexDigits(g) \o TwoHexDigits(b)
            /\ (value.sgn < 0 /\ RLe(<<1, 1>>, value.sq)) => outcome.value = "#2166ac"
            /\ value.sgn = 0 => outcome.value = "#f7f7f7"
            /\ (value.sgn > 0 /\ RLe(<<1, 1>>, value.sq)) => outcome.value = "#b2182b"

\* v = 1/2: the blue channel 247 - 102 + 0.5 = 145.5 is cut to 145, the red
\* 247 - 34.5 + 0.5 = 213 is exact.
C7_Witness ==
    pc = "done" /\ value = Surd(1, <<1, 4>>) /\ outcome.value = "#d58891"

C7_WitnessIrrational ==
    pc = "done" /\ value = Surd(-1, <<1, 2>>) /\ outcome.ok

C7_WitnessClamped ==
    pc = "done" /\ value = Surd(-1, <<4, 1>>) /\ outcome.value = "#2166ac"

----------------------------------------------------------------------------
(* Claims about the correlation engine *)

CorrDone == frames[1].pc = "done"
CorrOutcome == frames[1].outcome
CorrReturned == CorrDone /\ CorrOutcome.ok

\* The aligned returns of the ticker in column c of a returned result.
AlignedColumn(c) ==
    LET aligned == _align_returns(price_history, return_type).value
    IN  [k \in 1..Len(aligned.matrix) |-> aligned.matrix[k][c]]

\* C1: a returned matrix is square with side len(tickers), every entry is in
\* [-1, 1], and every diagonal entry is 1.0 exactly, a ticker whose aligned
\* returns are all equal included.
C1_SquareUnitDiagonalInRange ==
    CorrReturned =>
        LET r == CorrOutcome.value
            side == Len(r.tickers)
        IN  /\ Len(r.matrix) = side
            /\ \A i \in 1..side :
                   /\ Len(r.matrix[i]) = side
                   /\ r.matrix[i][i] = [sgn |-> 1, sq |-> <<1, 1>>]
                   /\ \A j \in 1..side :
                          /\ r.matrix[i][j].sgn \in {-1, 0, 1}
                          /\ r.matrix[i][j].sq[1] >= 0
                          /\ r.matrix[i][j].sq[1] <= r.matrix[i][j].sq[2]

\* A result over three observations with a ticker of constant aligned returns
\* beside one whose returns vary.
C1_Witness ==
    /\ CorrReturned
    /\ CorrOutcome.value.observation_count >= 3
    /\ \E c \in 1..2 :
          /\ \A k \in 1..CorrOutcome.value.observation_count : AlignedColumn(c)[k] = AlignedColumn(c)[1]
          /\ \E k \in 1..CorrOutcome.value.observation_count : AlignedColumn(3 - c)[k] # AlignedColumn(3 - c)[1]
          /\ CorrOutcome.value.matrix[c][c].sgn = 1

\* The return dates of a series: the current dates of the consecutive pairs of
\* the stably date-sorted series whose prices are both > 0.
ReturnDates(s) ==
    LET t == StableByDate(s)
        pairs == ValidPairs(t)
    IN  {t[pairs[k]][1] : k \in 1..Len(pairs)}

HistoryComputable ==
    \A i \in 1..Len(price_history) : ReturnDates(price_history[i][2]) # {}

DatesInEverySeries ==
    {d \in UNION {ReturnDates(price_history[i][2]) : i \in 1..Len(price_history)} :
        \A i \in 1..Len(price_history) : d \in ReturnDates(price_history[i][2])}

\* C2 as stated: a returned observation_count is the number of dates in the
\* return series of every ticker and is at least 2, and whenever fewer than 2
\* dates are in every series the call fails with an InsufficientData error.
C2_Original ==
    CorrDone =>
        /\ CorrOutcome.ok =>
              /\ CorrOutcome.value.observation_count = Cardinality(DatesInEverySeries)
              /\ CorrOutcome.value.observation_count >= 2
        /\ Cardinality(DatesInEverySeries) < 2 =>
              ~CorrOutcome.ok /\ CorrOutcome.error \in InsufficientData

\* C2: a returned observation_count is the number of dates in the return
\* series of every ticker, each date once, and is at least 2.  With fewer
\* than 2 such dates the call fails: a ticker without returns fails it with
\* the InsufficientData error of compute_returns; otherwise fewer than two
\* tickers fail it with the InvalidParameter error "At least two tickers ...",
\* and two or more tickers with the InsufficientData error "Not enough
\* overlapping ...".
C2_ObservationCountIsCommonDates ==
    CorrDone =>
        /\ CorrOutcome.ok =>
              /\ CorrOutcome.value.observation_count = Cardinality(DatesInEverySeries)
              /\ CorrOutcome.value.observation_count >= 2
        /\ Cardinality(DatesInEverySeries) < 2 =>
              /\ ~CorrOutcome.ok
              /\ ~HistoryComputable =>
                     /\ CorrOutcome.error \in {MSG_TOO_FEW_PRICES, MSG_NO_RETURNS}
                     /\ CorrOutcome.error \in InsufficientData
              /\ (HistoryComputable /\ Len(price_history) < 2) =>
                     /\ CorrOutcome.error = MSG_TWO_TICKERS
                     /\ CorrOutcome.error \in InvalidParameter
              /\ (HistoryComputable /\ Len(price_history) >= 2) =>
                     /\ CorrOutcome.error = MSG_NO_OVERLAP
                     /\ CorrOutcome.error \in InsufficientData

\* A series with two returns of one date, beside one with a return date that
\* is not common.
C2_Witness ==
    /\ CorrReturned
    /\ \E i \in 1..Len(price_history) :
          LET s == price_history[i][2]
          IN  /\ \E a, b \in 1..Len(s) : a # b /\ s[a][1] = s[b][1]
              /\ Cardinality(ReturnDates(s)) < Len(s) - 1
    /\ \E i \in 1..Len(price_history) : ReturnDates(price_history[i][2]) # DatesInEverySeries
    /\ CorrOutcome.value.observation_count = 2

C2_WitnessFails ==
    /\ CorrDone /\ Len(price_history) = 2 /\ HistoryComputable
    /\ Cardinality(DatesInEverySeries) = 1
    /\ CorrOutcome = Raised(MSG_NO_OVERLAP)

\* C6: with fewer than two tickers the call fails; when every ticker present
\* has a computable return series the failure is the InvalidParameter error
\* "At least two tickers ...", raised after the per-ticker returns (a ticker
\* without returns fails the call first) and before the alignment (an empty
\* mapping, or a single ticker with fewer than 2 return dates, still gets it).
C6_FewerThanTwoTickersFails ==
    (CorrDone /\ Len(price_history) < 2) =>
        /\ ~CorrOutcome.ok
        /\ HistoryComputable =>
              CorrOutcome.error = MSG_TWO_TICKERS /\ CorrOutcome.error \in InvalidParameter
        /\ ~HistoryComputable =>
              CorrOutcome.error \in {MSG_TOO_FEW_PRICES, MSG_NO_RETURNS}

\* A single ticker with one return date, which the alignment would refuse.
C6_Witness ==
    /\ CorrDone /\ Len(price_history) = 1
    /\ Cardinality(ReturnDates(price_history[1][2])) = 1
    /\ CorrOutcome = Raised(MSG_TWO_TICKERS)

C6_WitnessEmpty ==
    CorrDone /\ price_history = <<>> /\ CorrOutcome = Raised(MSG_TWO_TICKERS)

\* C10: a returned matrix is symmetric: matrix[i][j] = matrix[j][i] for every
\* pair of ticker indices.
C10_MatrixSymmetric ==
    CorrReturned =>
        LET r == CorrOutcome.value
        IN  \A i, j \in 1..Len(r.tickers) : r.matrix[i][j] = r.matrix[j][i]

\* An off-diagonal correlation that is none of -1, 0, 1, between two tickers of
\* different variance.
C10_Witness ==
    /\ CorrReturned
    /\ CorrOutcome.value.matrix[1][2].sgn # 0
    /\ CorrOutcome.value.matrix[1][2].sq # <<1, 1>>
    /\ LET m1 == mean(AlignedColumn(1))
           m2 == mean(AlignedColumn(2))
       IN  Variance(AlignedColumn(1), m1) # Variance(AlignedColumn(2), m2)

----------------------------------------------------------------------------
(* Claims about repeated and interleaved calls *)

BothDone == \A c \in 1..2 : frames[c].pc = "done"

\* C9: compute_correlation_matrix is pure.  Two calls on one price_history
\* and return_type, their steps interleaved in any way (one after the other
\* included), end with the same outcome, the one a call alone produces; no
\* step of a call changes the input mapping, the return type or the other
\* call's locals.
C9_CallsArePure ==
    [][/\ price_history' = price_history
       /\ return_type' = return_type
       /\ \A c \in 1..2 : frames'[c] # frames[c] =>
              \A d \in (1..2) \ {c} : frames'[d] = frames[d]
       /\ \A c \in 1..2 : frames'[c].pc = "done" /\ frames[c].pc # "done" =>
              frames'[c].outcome = compute_correlation_matrix(price_history, return_type)
       /\ BothDone' => frames'[1].outcome = frames'[2].outcome]_vars

\* Both calls returned a matrix from a mapping with a series that is not in
\* date order.
C9_Witness ==
    /\ Len(frames) = 2
    /\ BothDone
    /\ frames[1].outcome.ok
    /\ frames[2].outcome.ok
    /\ \E i \in 1..Len(price_history) : price_history[i][2] # SortedByDate(price_history[i][2])

\* The two calls in progress at once, at different steps.
C9_WitnessInterleaved ==
    /\ Len(frames) = 2
    /\ frames[1].pc = "cells"
    /\ frames[2].pc = "returns"
    /\ frames[2].i = 2

----------------------------------------------------------------------------
(* Claims about the desktop application *)

\* The form passes the handler's validation.
FormValid ==
    /\ Len(tickers_var) >= 2
    /\ start_var.ok
    /\ end_var.ok
    /\ start_var.day < end_var.day

\* r is a result for tickers the form names.
ResultOfForm(r) ==
    /\ Len(r.tickers) >= 2
    /\ \A i \in 1..Len(r.tickers) :
           \E k \in 1..Len(tickers_var) : Upper(tickers_var[k]) = r.tickers[i]
    /\ Len(r.matrix) = Len(r.tickers)

\* The status line, the canvas and the table all show r.
Shows(r, status, drawing, grid) ==
    LET n == Len(r.tickers) IN
    /\ status = "Computed correlations using " \o ToString(r.observation_count)
                    \o " overlapping daily returns."
    /\ drawing.width = LABEL_OFFSET + CELL_SIZE * n
    /\ drawing.height = LABEL_OFFSET + CELL_SIZE * n
    /\ Len(drawing.labels) = 2 * n
    /\ \A i \in 1..n : drawing.labels[2 * i - 1].text = r.tickers[i]
                         /\ drawing.labels[2 * i].text = r.tickers[i]
    /\ Len(drawing.cells) = n * n
    /\ \A i, j \in 1..n :
           LET cell == drawing.cells[(i - 1) * n + j] IN
           /\ cell.fill = correlation_to_hex(r.matrix[i][j])
           /\ cell.text = Format2f(r.matrix[i][j])
           /\ cell.x0 = LABEL_OFFSET + (j - 1) * CELL_SIZE
           /\ cell.y0 = LABEL_OFFSET + (i - 1) * CELL_SIZE
    /\ grid.columns = <<"Ticker">> \o r.tickers
    /\ Len(grid.rows) = n
    /\ \A i \in 1..n :
           /\ grid.rows[i][1] = r.tickers[i]
           /\ \A j \in 1..n : grid.rows[i][j + 1] = Format2f(r.matrix[i][j])

\* C8: whatever builds and edits came before, a build_heatmap that fails
\* (fewer than two tickers, an unparsable date, start >= end, a failed
\* download, an analysis error) shows an error dialog and leaves the status
\* line, the canvas and the table as they were; the three change only in a
\* build that shows no error, and then all three show that build's result.
\* A step that leaves the form as it is and changes the state is a build.
C8_FailedBuildKeepsDisplay ==
    [][formVars' = formVars =>
          /\ ~FormValid => dialogs' # <<>>
          /\ FormValid => \A k \in 1..Len(dialogs') :
                              dialogs'[k].title \in {"Data error", "Analysis error"}
          /\ dialogs' # <<>> => shownVars' = shownVars /\ result' = result
          /\ dialogs' = <<>> =>
                 /\ FormValid
                 /\ result'.ok
                 /\ ResultOfForm(result'.value)
                 /\ Shows(result'.value, status_var', canvas', table')]_vars

\* A failed analysis after a successful build: its dialog is up, and the
\* three widgets still show the earlier result.
C8_Witness ==
    /\ result.ok
    /\ Len(dialogs) = 1
    /\ dialogs[1].title = "Analysis error"
    /\ Shows(result.value, status_var, canvas, table)

\* A successful build showing a negative correlation that is not -1.
C8_WitnessBuilt ==
    /\ result.ok
    /\ dialogs = <<>>
    /\ Shows(result.value, status_var, canvas, table)
    /\ table.rows[1][3] = "-0.50"

\* A failed download after a successful build.
C8_WitnessDataError ==
    /\ result.ok
    /\ Len(dialogs) = 1
    /\ dialogs[1].title = "Data error"
    /\ dialogs[1].message = "Unable to download prices: " \o MSG_NO_PRICE_DATA
    /\ Shows(result.value, status_var, canvas, table)

\* Both dates unparsable: two dialogs.
C8_WitnessTwoDialogs == Len(dialogs) = 2 /\ result.ok

====
